---- MODULE Spec2Model ----
(***************************************************************************)
(* Model of src/main.py, class PeriodComparison: the period loader's       *)
(* validation, the client registry (create_clients_base), manager          *)
(* resolution, special-zone rows, growth and the two manager summaries.    *)
(*                                                                         *)
(* Cells of the input sheets are strings, as str(value) sees them; an      *)
(* empty cell is NaN, whose str() is "nan".  Decimal and exponent literals *)
(* are outside the input sets, so float(str) is a signed integer parse.    *)
(* Values are floats: every sum and difference of values is rounded to the *)
(* nearest float, ties to even.  float64 keeps 53 significant bits; the    *)
(* model keeps MANTISSA_BITS, so that rounding happens within the integers *)
(* TLC has.                                                                *)
(* A DataFrame is a sequence of records (rows in index order), a column a  *)
(* record field; period-indexed columns x_period_k are the field x of      *)
(* row.period[k].                                                          *)
(***************************************************************************)
EXTENDS Integers, Sequences, FiniteSets, TLC

(***************************************************************************)
(* Strings                                                                 *)
(***************************************************************************)
NaN == "nan"

isna(v) == v = NaN

Digits == <<"0", "1", "2", "3", "4", "5", "6", "7", "8", "9">>

IsDigit(c) == \E d \in 1..10 : Digits[d] = c

DigitValue(c) == (CHOOSE d \in 1..10 : Digits[d] = c) - 1

RECURSIVE IsDigits(_)
IsDigits(s) == IF s = "" THEN TRUE ELSE IsDigit(Head(s)) /\ IsDigits(Tail(s))

RECURSIVE DigitsToInt(_, _)
DigitsToInt(s, acc) ==
    IF s = "" THEN acc ELSE DigitsToInt(Tail(s), 10 * acc + DigitValue(Head(s)))

\* float(s) succeeds: an optional sign and at least one digit
IsNumeric(s) ==
    IF s # "" /\ Head(s) = "-"
    THEN Tail(s) # "" /\ IsDigits(Tail(s))
    ELSE s # "" /\ IsDigits(s)

\* float(s) for a string IsNumeric accepts
ToNumber(s) ==
    IF Head(s) = "-" THEN 0 - DigitsToInt(Tail(s), 0) ELSE DigitsToInt(s, 0)

\* significant bits of a float of the model
MANTISSA_BITS == 12

MantissaLimit == 2 ^ MANTISSA_BITS

\* the spacing of the floats around magnitude m: the least power of two u
\* (from u on) with m < MantissaLimit * u
RECURSIVE ulp(_, _)
ulp(m, u) == IF m < MantissaLimit * u THEN u ELSE ulp(m, 2 * u)

\* the float nearest to the real number x, ties to even: the result of one
\* float operation whose exact result is x
round_to_float(x) ==
    LET m == IF x < 0 THEN 0 - x ELSE x
        u == ulp(m, 1)
        q == m \div u
        r == m % u
        n == IF 2 * r > u \/ (2 * r = u /\ q % 2 = 1) THEN (q + 1) * u ELSE q * u
    IN  IF x < 0 THEN 0 - n ELSE n

\* str.zfill(width)
RECURSIVE zfill(_, _)
zfill(s, width) == IF Len(s) >= width THEN s ELSE zfill("0" \o s, width)

\* str.strip(), for blanks
RECURSIVE lstrip(_)
lstrip(s) == IF s # "" /\ Head(s) = " " THEN lstrip(Tail(s)) ELSE s

RECURSIVE rstrip(_)
rstrip(s) ==
    IF s # "" /\ SubSeq(s, Len(s), Len(s)) = " "
    THEN rstrip(SubSeq(s, 1, Len(s) - 1))
    ELSE s

strip(s) == rstrip(lstrip(s))

\* str.replace("'", "")
RECURSIVE drop_apostrophes(_)
drop_apostrophes(s) ==
    IF s = "" THEN ""
    ELSE IF Head(s) = "'" THEN drop_apostrophes(Tail(s))
    ELSE Head(s) \o drop_apostrophes(Tail(s))

Upper == <<"A", "B", "C", "D", "E", "F", "G", "H", "I", "J", "K", "L", "M",
           "N", "O", "P", "Q", "R", "S", "T", "U", "V", "W", "X", "Y", "Z">>

Lower == <<"a", "b", "c", "d", "e", "f", "g", "h", "i", "j", "k", "l", "m",
           "n", "o", "p", "q", "r", "s", "t", "u", "v", "w", "x", "y", "z">>

LowerChar(c) ==
    IF \E i \in 1..26 : Upper[i] = c
    THEN Lower[CHOOSE i \in 1..26 : Upper[i] = c]
    ELSE c

\* str.lower()
RECURSIVE lower(_)
lower(s) == IF s = "" THEN "" ELSE LowerChar(Head(s)) \o lower(Tail(s))

\* needle in haystack
contains(haystack, needle) ==
    \E i \in 1..(Len(haystack) - Len(needle) + 1) :
        SubSeq(haystack, i, i + Len(needle) - 1) = needle

\* s.split('_')[0]
RECURSIVE before_underscore(_)
before_underscore(s) ==
    IF s = "" \/ Head(s) = "_" THEN "" ELSE Head(s) \o before_underscore(Tail(s))

(***************************************************************************)
(* Configuration and state                                                 *)
(***************************************************************************)
VARIABLES
    file_count,                  \* self.file_count: files with use_file
    aggregation_mode,            \* self.aggregation_mode
    program_mode,                \* self.program_mode
    test_data,                   \* what create_test_files has done in this run
    sheets,                      \* the period workbooks as read_excel returns them
    data_frames,                 \* self.data_frames: period number -> rows
    clients_base,                \* the registry DataFrame
    managers_summary,            \* result of create_managers_summary
    managers_deal_date_summary,  \* result of create_managers_deal_date_summary
    pc                           \* position in run_analysis

vars == <<file_count, aggregation_mode, program_mode, test_data, sheets, data_frames,
          clients_base, managers_summary, managers_deal_date_summary, pc>>

NEW_CASES_TAB == 70000000

GREY_ZONE_TAB == 90000000

OTHER_ZONE_TAB == 80000000

MAX_TAB_NUMBER == 99999999

TAB_WIDTH == 8

CLIENT_ID_WIDTH == 20

\* the 'files' list of ANALYSIS_CONFIG has three entries
CONFIGURED_FILES == 3

(***************************************************************************)
(* Loading: load_excel_file and its validators                             *)
(***************************************************************************)
\* _validate_tab_number returning the grey-zone number for an empty cell too
validate_tab_number_blank_is_grey(value) ==
    LET str_value == drop_apostrophes(strip(value)) IN
    IF lower(str_value) \in {"grey_zone", "grey zone", "greyzone"}
    THEN GREY_ZONE_TAB
    ELSE IF str_value \in {"-", "", "nan", "None", "null"}
    THEN GREY_ZONE_TAB
    ELSE IF ~IsNumeric(str_value)
    THEN NEW_CASES_TAB
    ELSE LET numeric_value == ToNumber(str_value) IN
         IF numeric_value >= 0
         THEN IF numeric_value > MAX_TAB_NUMBER
              THEN NEW_CASES_TAB
              ELSE numeric_value
         ELSE NEW_CASES_TAB

\* _validate_tab_number; value is the cell as str(value) renders it
validate_tab_number(value) ==
    LET str_value == drop_apostrophes(strip(value)) IN
    IF lower(str_value) \in {"grey_zone", "grey zone", "greyzone"}
    THEN GREY_ZONE_TAB
    ELSE IF str_value \in {"-", "", "nan", "None", "null"}
    THEN NEW_CASES_TAB
    ELSE IF ~IsNumeric(str_value)
    THEN NEW_CASES_TAB                       \* ValueError
    ELSE LET numeric_value == ToNumber(str_value) IN
         IF numeric_value >= 0
         THEN IF numeric_value > MAX_TAB_NUMBER
              THEN NEW_CASES_TAB
              ELSE numeric_value
         ELSE NEW_CASES_TAB

\* _validate_value
validate_value(value) ==
    IF isna(value) THEN 0
    ELSE LET str_value == strip(value) IN
         IF str_value \in {"", "-", "nan", "None", "null"} THEN 0
         ELSE IF ~IsNumeric(str_value) THEN 0  \* ValueError
         ELSE round_to_float(ToNumber(str_value))

\* load_excel_file after read_excel and rename: dropna on client_id and
\* value, then the three column validations
load_excel_file(sheet) ==
    LET kept == SelectSeq(sheet, LAMBDA r : ~isna(r.client_id) /\ ~isna(r.value))
    IN  [i \in 1..Len(kept) |->
            [kept[i] EXCEPT
                !.tab_number =
                    zfill(drop_apostrophes(ToString(validate_tab_number(@))), TAB_WIDTH),
                !.client_id = zfill(drop_apostrophes(@), CLIENT_ID_WIDTH),
                !.value = validate_value(@)]]

(***************************************************************************)
(* DataFrame helpers                                                       *)
(***************************************************************************)
\* Series.fillna(default) on one cell
fillna(v, default) == IF isna(v) THEN default ELSE v

\* groupby(...).agg('first'): the first non-null cell of the group
RECURSIVE first(_)
first(cells) ==
    IF cells = <<>> THEN NaN
    ELSE IF ~isna(Head(cells)) THEN Head(cells)
    ELSE first(Tail(cells))

\* the running total of a float sum: acc plus the cells, added in order
RECURSIVE sum_from(_, _)
sum_from(acc, cells) ==
    IF cells = <<>> THEN acc
    ELSE sum_from(round_to_float(acc + Head(cells)), Tail(cells))

\* groupby(...).agg('sum') and Series.sum(): the cells added in row order
sum(cells) == sum_from(0, cells)

column(df, name) == [i \in 1..Len(df) |-> df[i][name]]

\* the orders in which list(a_set) can enumerate a set
Orders(S) ==
    {f \in [1..Cardinality(S) -> S] : \A i, j \in DOMAIN f : i # j => f[i] # f[j]}

(***************************************************************************)
(* Aggregation keys and resolution rules                                   *)
(***************************************************************************)
\* _get_client_aggregation_key with the key of granularity 2 as its default
get_client_aggregation_key_default_2(row) ==
    IF aggregation_mode = 1 THEN row.client_id
    ELSE IF aggregation_mode = 2 THEN row.client_id \o "_" \o row.tb
    ELSE IF aggregation_mode = 3
    THEN row.client_id \o "_" \o row.tb \o "_" \o row.gosb
    ELSE row.client_id \o "_" \o row.tb

\* _get_client_aggregation_key
get_client_aggregation_key(row) ==
    IF aggregation_mode = 1 THEN row.client_id
    ELSE IF aggregation_mode = 2 THEN row.client_id \o "_" \o row.tb
    ELSE IF aggregation_mode = 3
    THEN row.client_id \o "_" \o row.tb \o "_" \o row.gosb
    ELSE row.client_id

\* _get_manager_aggregation_key_from_final
get_manager_aggregation_key_from_final(row) ==
    IF aggregation_mode = 1 THEN ToString(row.final_tab_number)
    ELSE IF aggregation_mode = 2
    THEN ToString(row.final_tab_number) \o "_" \o row.final_tb
    ELSE IF aggregation_mode = 3
    THEN ToString(row.final_tab_number) \o "_" \o row.final_tb \o "_" \o row.final_gosb
    ELSE ToString(row.final_tab_number)

\* _is_excluded_tab_number testing the pattern 9XXYYYYY only
is_excluded_tab_number_9_only(tab_number) ==
    IF tab_number = 0 \/ tab_number = GREY_ZONE_TAB THEN FALSE
    ELSE LET tab_str == zfill(ToString(tab_number), TAB_WIDTH) IN
         Len(tab_str) = TAB_WIDTH /\ Head(tab_str) = "9"

\* _is_excluded_tab_number
is_excluded_tab_number(tab_number) ==
    IF tab_number = 0 \/ tab_number = GREY_ZONE_TAB THEN FALSE
    ELSE LET tab_str == zfill(ToString(tab_number), TAB_WIDTH) IN
         Len(tab_str) = TAB_WIDTH /\ Head(tab_str) \in {"8", "9"}

\* _check_manager_client_match
check_manager_client_match(row, period_num, client_aggregation_mode) ==
    IF client_aggregation_mode = 1 THEN TRUE
    ELSE IF client_aggregation_mode = 2
    THEN row.period[period_num].tb = row.final_tb
    ELSE IF client_aggregation_mode = 3
    THEN /\ row.period[period_num].tb = row.final_tb
         /\ row.period[period_num].gosb = row.final_gosb
    ELSE TRUE

\* the first inner loop over j without the update of best_value
RECURSIVE scan_best_manager_stale_value(_, _, _, _)
scan_best_manager_stale_value(row, j, best_manager, best_value) ==
    IF j > file_count THEN best_manager
    ELSE IF /\ row.period[j].tab_number # 0
            /\ row.period[j].value > best_value
            /\ check_manager_client_match(row, j, aggregation_mode)
            /\ ~is_excluded_tab_number(row.period[j].tab_number)
    THEN scan_best_manager_stale_value(row, j + 1, j, best_value)
    ELSE scan_best_manager_stale_value(row, j + 1, best_manager, best_value)

\* create_clients_base, the first inner loop over j (0 stands for None)
RECURSIVE scan_best_manager(_, _, _, _)
scan_best_manager(row, j, best_manager, best_value) ==
    IF j > file_count THEN best_manager
    ELSE IF /\ row.period[j].tab_number # 0
            /\ row.period[j].value > best_value
            /\ check_manager_client_match(row, j, aggregation_mode)
            /\ ~is_excluded_tab_number(row.period[j].tab_number)
    THEN scan_best_manager(row, j + 1, j, row.period[j].value)
    ELSE scan_best_manager(row, j + 1, best_manager, best_value)

\* create_clients_base, the fallback loop over j
RECURSIVE scan_fallback_manager(_, _, _, _)
scan_fallback_manager(row, j, fallback_manager, fallback_value) ==
    IF j > file_count THEN fallback_manager
    ELSE IF /\ row.period[j].tab_number # 0
            /\ row.period[j].value > fallback_value
            /\ check_manager_client_match(row, j, aggregation_mode)
    THEN scan_fallback_manager(row, j + 1, j, row.period[j].value)
    ELSE scan_fallback_manager(row, j + 1, fallback_manager, fallback_value)

\* the final_* assignments with the manager's name read from period 1
assign_final_first_fio(row, j) ==
    [row EXCEPT !.final_tab_number = row.period[j].tab_number,
                !.final_fio = row.period[1].fio,
                !.final_tb = row.period[j].tb,
                !.final_gosb = row.period[j].gosb]

\* the four final_* assignments from period j
assign_final(row, j) ==
    [row EXCEPT !.final_tab_number = row.period[j].tab_number,
                !.final_fio = row.period[j].fio,
                !.final_tb = row.period[j].tb,
                !.final_gosb = row.period[j].gosb]

\* create_clients_base, the body of the loop over idx
resolve_row(row) ==
    LET best_manager == scan_best_manager(row, 1, 0, 0) IN
    IF best_manager # 0 THEN assign_final(row, best_manager)
    ELSE LET fallback_manager == scan_fallback_manager(row, 1, 0, 0) IN
         IF fallback_manager # 0 THEN assign_final(row, fallback_manager)
         ELSE row

\* create_clients_base, the loop for i in range(file_count, 0, -1)
RECURSIVE resolve_managers(_, _)
resolve_managers(base, i) ==
    IF i = 0 THEN base
    ELSE resolve_managers(
            [idx \in 1..Len(base) |->
                IF base[idx].period[i].tab_number # 0 /\ base[idx].final_tab_number = 0
                THEN resolve_row(base[idx])
                ELSE base[idx]],
            i - 1)

(***************************************************************************)
(* Registry construction: create_clients_base up to the final_* columns    *)
(***************************************************************************)
\* period_columns with the value column aggregated by 'first': a later record
\* of the key does not add to the period's value
period_columns_first_value(df, client_key) ==
    LET group == SelectSeq(df, LAMBDA r : get_client_aggregation_key(r) = client_key)
        tab_number ==
            IF group = <<>> THEN 0
            ELSE ToNumber(first(column(group, "tab_number")))
        reserved == tab_number \in {NEW_CASES_TAB, GREY_ZONE_TAB}
    IN  [client_id   |-> first(column(group, "client_id")),
         tab_number  |-> tab_number,
         fio         |-> fillna(first(column(group, "fio")), ""),
         tb          |-> IF reserved THEN "-"
                         ELSE fillna(first(column(group, "tb")), ""),
         gosb        |-> IF reserved THEN "-"
                         ELSE fillna(first(column(group, "gosb")), ""),
         client_name |-> fillna(first(column(group, "client_name")), ""),
         value       |-> IF group = <<>> THEN 0 ELSE group[1].value]

\* One period's columns of the registry row of client_key: the groupby/agg
\* of the period, the left merge, the fillna block and the "-" masks of the
\* two reserved numbers.
period_columns(df, client_key) ==
    LET group == SelectSeq(df, LAMBDA r : get_client_aggregation_key(r) = client_key)
        tab_number ==
            IF group = <<>> THEN 0
            ELSE ToNumber(first(column(group, "tab_number")))
        reserved == tab_number \in {NEW_CASES_TAB, GREY_ZONE_TAB}
    IN  [client_id   |-> first(column(group, "client_id")),
         tab_number  |-> tab_number,
         fio         |-> fillna(first(column(group, "fio")), ""),
         tb          |-> IF reserved THEN "-"
                         ELSE fillna(first(column(group, "tb")), ""),
         gosb        |-> IF reserved THEN "-"
                         ELSE fillna(first(column(group, "gosb")), ""),
         client_name |-> fillna(first(column(group, "client_name")), ""),
         value       |-> sum(column(group, "value"))]

\* all_client_keys collected from the first period only
all_client_keys_first_period ==
    UNION {{get_client_aggregation_key(data_frames[k][i]) : i \in 1..Len(data_frames[k])} :
            k \in 1..file_count \cap {1}}

\* all_client_keys
all_client_keys ==
    UNION {{get_client_aggregation_key(data_frames[k][i]) : i \in 1..Len(data_frames[k])} :
            k \in 1..file_count}

\* the registry row of client_key before manager resolution; the column
\* client_id is the one merged from period 1, later merges add
\* client_id_period_k
registry_row(client_key) ==
    LET period == [k \in 1..file_count |-> period_columns(data_frames[k], client_key)]
    IN  [client_key       |-> client_key,
         client_id        |-> period[1].client_id,
         period           |-> period,
         final_tab_number |-> 0,
         final_fio        |-> "",
         final_tb         |-> "",
         final_gosb       |-> ""]

(***************************************************************************)
(* Branch directory.  config.TB_GOSB_CODES is imported by main.py but is   *)
(* not part of the sources; its shape is read off its uses                 *)
(* (tb_codes: code -> short_name, full_name; gosb_codes: (tb, gosb) ->     *)
(* name), a dict being a sequence of entries in insertion order.           *)
(***************************************************************************)
TB_GOSB_CODES ==
    [tb_codes   |-> <<[code |-> 13, short_name |-> "CCB", full_name |-> "Central bank"],
                      [code |-> 16, short_name |-> "UB", full_name |-> "Ural bank"],
                      [code |-> 38, short_name |-> "Ural", full_name |-> "Ural regional office"]>>,
     gosb_codes |-> <<[tb |-> 13, gosb |-> 8593, name |-> "Lipetsk"],
                      [tb |-> 13, gosb |-> 9013, name |-> "Kursk"],
                      [tb |-> 16, gosb |-> 7003, name |-> "Perm"]>>]

\* self.tb_gosb_codes['tb_codes'][tb_code]
tb_info(tb_code) ==
    LET entries == TB_GOSB_CODES.tb_codes IN
    entries[CHOOSE i \in 1..Len(entries) : entries[i].code = tb_code]

\* self.tb_gosb_codes['gosb_codes'][(tb_code, gosb_code)]
gosb_info(tb_code, gosb_code) ==
    LET entries == TB_GOSB_CODES.gosb_codes IN
    entries[CHOOSE i \in 1..Len(entries) :
                entries[i].tb = tb_code /\ entries[i].gosb = gosb_code].name

\* _get_tb_code_from_name, the loop over the directory from entry i on
RECURSIVE scan_tb_codes(_, _)
scan_tb_codes(tb_name, i) ==
    LET entries == TB_GOSB_CODES.tb_codes IN
    IF i > Len(entries) THEN 0
    ELSE IF \/ IsNumeric(tb_name) /\ ToNumber(tb_name) = entries[i].code
            \/ tb_name = entries[i].short_name
            \/ tb_name = entries[i].full_name
            \/ entries[i].full_name # "" /\ contains(entries[i].full_name, tb_name)
    THEN entries[i].code
    ELSE scan_tb_codes(tb_name, i + 1)

\* _get_tb_code_from_name
get_tb_code_from_name(tb_name) ==
    IF tb_name = "" \/ tb_name = "-" THEN 0 ELSE scan_tb_codes(tb_name, 1)

\* _get_gosb_code_from_name, the loop over the directory from entry i on
RECURSIVE scan_gosb_codes(_, _, _)
scan_gosb_codes(gosb_name, tb_code, i) ==
    LET entries == TB_GOSB_CODES.gosb_codes IN
    IF i > Len(entries) THEN 0
    ELSE IF /\ entries[i].tb = tb_code
            /\ \/ IsNumeric(gosb_name) /\ ToNumber(gosb_name) = entries[i].gosb
               \/ gosb_name = entries[i].name
               \/ contains(entries[i].name, gosb_name)
    THEN entries[i].gosb
    ELSE scan_gosb_codes(gosb_name, tb_code, i + 1)

\* _get_gosb_code_from_name
get_gosb_code_from_name(gosb_name, tb_code) ==
    IF gosb_name = "" \/ gosb_name = "-" THEN 0
    ELSE scan_gosb_codes(gosb_name, tb_code, 1)

\* _generate_grey_zone_tab_number padding the sub-branch code to five digits,
\* the eight-digit pattern 9XXYYYYY
generate_grey_zone_tab_number_5_digits(tb_code, gosb_code) ==
    IF tb_code = 0 THEN GREY_ZONE_TAB
    ELSE IF gosb_code = 0 THEN GREY_ZONE_TAB + tb_code * 1000
    ELSE ToNumber("9" \o zfill(ToString(tb_code), 2) \o zfill(ToString(gosb_code), 5))

\* _generate_grey_zone_tab_number
generate_grey_zone_tab_number(tb_code, gosb_code) ==
    IF tb_code = 0 THEN GREY_ZONE_TAB
    ELSE IF gosb_code = 0 THEN GREY_ZONE_TAB + tb_code * 1000
    ELSE ToNumber("9" \o zfill(ToString(tb_code), 2) \o zfill(ToString(gosb_code), 6))

\* _generate_other_tab_number
generate_other_tab_number(tb_code, gosb_code) ==
    IF tb_code = 0 THEN OTHER_ZONE_TAB
    ELSE IF gosb_code = 0 THEN OTHER_ZONE_TAB + tb_code * 1000
    ELSE ToNumber("8" \o zfill(ToString(tb_code), 2) \o zfill(ToString(gosb_code), 6))

(***************************************************************************)
(* Special zones                                                           *)
(***************************************************************************)
\* groups[key].append(row): a dict of lists in insertion order; a row is
\* kept by its index label (row.name)
add_to_group(groups, key, idx) ==
    IF \E g \in 1..Len(groups) : groups[g].key = key
    THEN [g \in 1..Len(groups) |->
            IF groups[g].key = key
            THEN [groups[g] EXCEPT !.rows = Append(@, idx)]
            ELSE groups[g]]
    ELSE Append(groups, [key |-> key, rows |-> <<idx>>])

\* the grouping loop filing a row whose branch name has no code under the
\* first branch of the directory
RECURSIVE group_by_tb_miss_as_first(_, _, _)
group_by_tb_miss_as_first(base, idx, tb_groups) ==
    IF idx > Len(base) THEN tb_groups
    ELSE LET tb_name == base[idx].final_tb
             tb_code == get_tb_code_from_name(tb_name)
         IN  IF tb_name # "" /\ tb_name # "-"
             THEN group_by_tb_miss_as_first(
                    base, idx + 1,
                    add_to_group(tb_groups,
                                 IF tb_code > 0 THEN tb_code
                                 ELSE TB_GOSB_CODES.tb_codes[1].code,
                                 idx))
             ELSE group_by_tb_miss_as_first(base, idx + 1, tb_groups)

\* _process_special_zones, the grouping loop: tb_groups after rows idx..
RECURSIVE group_by_tb(_, _, _)
group_by_tb(base, idx, tb_groups) ==
    IF idx > Len(base) THEN tb_groups
    ELSE LET tb_name == base[idx].final_tb
             tb_code == get_tb_code_from_name(tb_name)
         IN  IF tb_name # "" /\ tb_name # "-" /\ tb_code > 0
             THEN group_by_tb(base, idx + 1, add_to_group(tb_groups, tb_code, idx))
             ELSE group_by_tb(base, idx + 1, tb_groups)

\* _process_special_zones, the grouping loop: gosb_groups after rows idx..
RECURSIVE group_by_gosb(_, _, _)
group_by_gosb(base, idx, gosb_groups) ==
    IF idx > Len(base) THEN gosb_groups
    ELSE LET tb_name == base[idx].final_tb
             gosb_name == base[idx].final_gosb
             tb_code == get_tb_code_from_name(tb_name)
             gosb_code == get_gosb_code_from_name(gosb_name, tb_code)
         IN  IF /\ tb_name # "" /\ tb_name # "-" /\ tb_code > 0
                /\ gosb_name # "" /\ gosb_name # "-" /\ gosb_code > 0
             THEN group_by_gosb(base, idx + 1,
                                add_to_group(gosb_groups, <<tb_code, gosb_code>>, idx))
             ELSE group_by_gosb(base, idx + 1, gosb_groups)

\* the rows of base whose index label is in labels, in index order
RECURSIVE rows_at(_, _, _)
rows_at(base, labels, idx) ==
    IF idx > Len(base) THEN <<>>
    ELSE IF idx \in labels THEN <<base[idx]>> \o rows_at(base, labels, idx + 1)
    ELSE rows_at(base, labels, idx + 1)

\* _create_special_zone_entry followed by clients_base.loc[len(clients_base)]
\* = entry: <<>> for None, else the appended row.  filter_rows is the set of
\* index labels of the rows passed, all labels of base when it is None.  The
\* keys of the entry that are no column (growth, final_client_name) are
\* dropped by the assignment and the columns it lacks are NaN.
create_special_zone_entry(tab_number, fio, tb, gosb, base, filter_rows) ==
    LET filtered_data == rows_at(base, filter_rows, 1) IN
    IF Len(filtered_data) = 0 THEN <<>>
    ELSE <<[client_key       |-> "special_" \o ToString(tab_number),
            client_id        |-> NaN,
            period           |->
                [i \in 1..file_count |->
                    [client_id   |-> NaN,
                     tab_number  |-> NaN,
                     fio         |-> NaN,
                     tb          |-> NaN,
                     gosb        |-> NaN,
                     client_name |-> NaN,
                     value       |->
                        sum([r \in 1..Len(filtered_data) |->
                                filtered_data[r].period[i].value])]],
            final_tab_number |-> tab_number,
            final_fio        |-> fio,
            final_tb         |-> tb,
            final_gosb       |-> gosb]>>

range(seq) == {seq[i] : i \in 1..Len(seq)}

\* _process_grey_zone, the loop over tb_groups from group g on
RECURSIVE grey_zone_by_tb(_, _, _)
grey_zone_by_tb(base, tb_groups, g) ==
    IF g > Len(tb_groups) THEN base
    ELSE LET tb_code == tb_groups[g].key
             tb_name == tb_info(tb_code).short_name
         IN  grey_zone_by_tb(
                base \o create_special_zone_entry(
                            generate_grey_zone_tab_number(tb_code, 0),
                            "Grey zone " \o tb_name, tb_name, "-",
                            base, range(tb_groups[g].rows)),
                tb_groups, g + 1)

\* _process_grey_zone, the loop over gosb_groups from group g on
RECURSIVE grey_zone_by_gosb(_, _, _)
grey_zone_by_gosb(base, gosb_groups, g) ==
    IF g > Len(gosb_groups) THEN base
    ELSE LET tb_code == gosb_groups[g].key[1]
             gosb_code == gosb_groups[g].key[2]
             tb_name == tb_info(tb_code).short_name
             gosb_name == gosb_info(tb_code, gosb_code)
         IN  grey_zone_by_gosb(
                base \o create_special_zone_entry(
                            generate_grey_zone_tab_number(tb_code, gosb_code),
                            "Grey zone " \o tb_name \o " " \o gosb_name, tb_name, gosb_name,
                            base, range(gosb_groups[g].rows)),
                gosb_groups, g + 1)

\* _process_grey_zone writing the row of the whole registry at the label of
\* the last row, len(clients_base) - 1, instead of appending it
process_grey_zone_overwrite(base, tb_groups, gosb_groups) ==
    LET entry == create_special_zone_entry(GREY_ZONE_TAB, "Grey zone", "-", "-",
                                           base, 1..Len(base))
        with_base_zone ==
            IF entry = <<>> THEN base ELSE [base EXCEPT ![Len(base)] = entry[1]]
    IN  grey_zone_by_gosb(grey_zone_by_tb(with_base_zone, tb_groups, 1), gosb_groups, 1)

\* _process_grey_zone
process_grey_zone(base, tb_groups, gosb_groups) ==
    LET with_base_zone ==
            base \o create_special_zone_entry(GREY_ZONE_TAB, "Grey zone", "-", "-",
                                              base, 1..Len(base))
    IN  grey_zone_by_gosb(grey_zone_by_tb(with_base_zone, tb_groups, 1), gosb_groups, 1)

\* _process_other_zone, the loop over tb_groups from group g on
RECURSIVE other_zone_by_tb(_, _, _)
other_zone_by_tb(base, tb_groups, g) ==
    IF g > Len(tb_groups) THEN base
    ELSE LET tb_code == tb_groups[g].key
             tb_name == tb_info(tb_code).short_name
         IN  other_zone_by_tb(
                base \o create_special_zone_entry(
                            generate_other_tab_number(tb_code, 0),
                            "Other " \o tb_name, tb_name, "-",
                            base, range(tb_groups[g].rows)),
                tb_groups, g + 1)

\* _process_other_zone, the loop over gosb_groups from group g on
RECURSIVE other_zone_by_gosb(_, _, _)
other_zone_by_gosb(base, gosb_groups, g) ==
    IF g > Len(gosb_groups) THEN base
    ELSE LET tb_code == gosb_groups[g].key[1]
             gosb_code == gosb_groups[g].key[2]
             tb_name == tb_info(tb_code).short_name
             gosb_name == gosb_info(tb_code, gosb_code)
         IN  other_zone_by_gosb(
                base \o create_special_zone_entry(
                            generate_other_tab_number(tb_code, gosb_code),
                            "Other " \o tb_name \o " " \o gosb_name, tb_name, gosb_name,
                            base, range(gosb_groups[g].rows)),
                gosb_groups, g + 1)

\* _process_other_zone
process_other_zone(base, tb_groups, gosb_groups) ==
    LET with_base_zone ==
            base \o create_special_zone_entry(OTHER_ZONE_TAB, "Other", "-", "-",
                                              base, 1..Len(base))
    IN  other_zone_by_gosb(other_zone_by_tb(with_base_zone, tb_groups, 1), gosb_groups, 1)

\* _process_special_zones
process_special_zones(base) ==
    LET tb_groups == group_by_tb(base, 1, <<>>)
        gosb_groups == group_by_gosb(base, 1, <<>>)
    IN  process_other_zone(process_grey_zone(base, tb_groups, gosb_groups),
                           tb_groups, gosb_groups)

\* create_clients_base, the two closing masks: "-" for the branch and
\* sub-branch of a row whose final number is 70000000 or 90000000
mask_reserved_finals(base) ==
    [idx \in 1..Len(base) |->
        IF base[idx].final_tab_number \in {NEW_CASES_TAB, GREY_ZONE_TAB}
        THEN [base[idx] EXCEPT !.final_tb = "-", !.final_gosb = "-"]
        ELSE base[idx]]

(***************************************************************************)
(* Growth and the manager summaries                                        *)
(***************************************************************************)
\* calculate_growth taking the later period minus the earlier one throughout
growth_of_reversed(value) ==
    IF file_count = 2 THEN value[2] - value[1]
    ELSE LET period_0_1 == value[2] - value[1]
             period_1_2 == value[3] - value[2]
         IN  period_1_2 - period_0_1

\* calculate_growth with the operands of the first difference swapped
growth_of_swapped(value) ==
    IF file_count = 2 THEN value[2] - value[1]
    ELSE LET period_0_1 == value[2] - value[1]
             period_1_2 == value[2] - value[3]
         IN  period_0_1 - period_1_2

\* calculate_growth, the column expression for one row
growth_of(value) ==
    IF file_count = 2 THEN round_to_float(value[1] - value[2])
    ELSE LET period_0_1 == round_to_float(value[1] - value[2])
             period_1_2 == round_to_float(value[2] - value[3])
         IN  round_to_float(period_0_1 - period_1_2)

\* the value_period_1..N cells of a registry row
period_values(row) == [k \in 1..file_count |-> row.period[k].value]

\* create_managers_summary with 'first' in place of 'sum' for the values
managers_summary_of_first_value(base) ==
    LET keys == {base[idx].manager_key : idx \in 1..Len(base)} IN
    {LET group == SelectSeq(base, LAMBDA r : r.manager_key = manager_key) IN
        [manager_key  |-> manager_key,
         fio          |-> first(column(group, "final_fio")),
         tb           |-> first(column(group, "final_tb")),
         gosb         |-> first(column(group, "final_gosb")),
         value        |-> [k \in 1..file_count |-> group[1].period[k].value],
         total_growth |-> sum(column(group, "growth")),
         tab_number   |-> IF contains(manager_key, "_")
                          THEN ToNumber(before_underscore(manager_key))
                          ELSE ToNumber(manager_key)]
     : manager_key \in keys}

\* create_managers_summary: groupby('manager_key').agg(...), the renames and
\* the tab_number column.  The rows are kept as a set: their order (sorted
\* by key) is not modelled.
managers_summary_of(base) ==
    LET keys == {base[idx].manager_key : idx \in 1..Len(base)} IN
    {LET group == SelectSeq(base, LAMBDA r : r.manager_key = manager_key) IN
        [manager_key  |-> manager_key,
         fio          |-> first(column(group, "final_fio")),
         tb           |-> first(column(group, "final_tb")),
         gosb         |-> first(column(group, "final_gosb")),
         value        |-> [k \in 1..file_count |->
                              sum([r \in 1..Len(group) |-> group[r].period[k].value])],
         total_growth |-> sum(column(group, "growth")),
         tab_number   |-> IF contains(manager_key, "_")
                          THEN ToNumber(before_underscore(manager_key))
                          ELSE ToNumber(manager_key)]
     : manager_key \in keys}

\* the loop body of create_managers_deal_date_summary storing the value of
\* the manager's first row of the period instead of the period's sum
deal_date_period_first_row(managers_data, period) ==
    LET df == data_frames[period]
        tabs == {df[i].tab_number : i \in 1..Len(df)}
        known == DOMAIN managers_data
    IN  [tab_num \in known \cup tabs |->
            IF tab_num \notin tabs THEN managers_data[tab_num]
            ELSE LET group == SelectSeq(df, LAMBDA r : r.tab_number = tab_num)
                     entry == IF tab_num \in known THEN managers_data[tab_num]
                              ELSE [tab_number |-> tab_num,
                                    fio        |-> first(column(group, "fio")),
                                    tb         |-> first(column(group, "tb")),
                                    gosb       |-> first(column(group, "gosb")),
                                    value      |-> <<0, 0, 0>>]
                 IN  IF period = 1 \/ period = 2 \/ (period = 3 /\ file_count = 3)
                     THEN [entry EXCEPT !.value[period] = group[1].value]
                     ELSE entry]

\* create_managers_deal_date_summary, the body of the loop over periods:
\* managers_data after the period's groupby('tab_number') rows are stored
deal_date_period(managers_data, period) ==
    LET df == data_frames[period]
        tabs == {df[i].tab_number : i \in 1..Len(df)}
        known == DOMAIN managers_data
    IN  [tab_num \in known \cup tabs |->
            IF tab_num \notin tabs THEN managers_data[tab_num]
            ELSE LET group == SelectSeq(df, LAMBDA r : r.tab_number = tab_num)
                     entry == IF tab_num \in known THEN managers_data[tab_num]
                              ELSE [tab_number |-> tab_num,
                                    fio        |-> first(column(group, "fio")),
                                    tb         |-> first(column(group, "tb")),
                                    gosb       |-> first(column(group, "gosb")),
                                    value      |-> <<0, 0, 0>>]
                 IN  IF period = 1 \/ period = 2 \/ (period = 3 /\ file_count = 3)
                     THEN [entry EXCEPT !.value[period] = sum(column(group, "value"))]
                     ELSE entry]

\* create_managers_deal_date_summary, the loop over periods period..N
RECURSIVE deal_date_data(_, _)
deal_date_data(managers_data, period) ==
    IF period > file_count THEN managers_data
    ELSE deal_date_data(deal_date_period(managers_data, period), period + 1)

\* create_managers_deal_date_summary: the rows with their total_growth
managers_deal_date_summary_of ==
    LET managers_data == deal_date_data(<<>>, 1) IN
    {IF file_count = 2 \/ file_count = 3
     THEN [total_growth |-> growth_of(managers_data[tab_num].value)]
            @@ managers_data[tab_num]
     ELSE managers_data[tab_num]
     : tab_num \in DOMAIN managers_data}

(***************************************************************************)
(* Input sheets                                                            *)
(***************************************************************************)
\* rows per sheet in the sheets with several clients
MaxRows == 2

AggregationModes == {1, 2, 3}

\* values of 'aggregation_mode' that no branch of the key functions names
UnsupportedModes == {0, 4}

\* PROGRAM_MODES['mode']: the modes run_analysis names, and others
ProgramModes == {1, 2, 3, 4}

UnsupportedProgramModes == {0, 5}

Clients == [client_id : {"1", "2"}, client_name : {"Alfa"}]

\* manager cells of a row: number, name, branch, sub-branch
Managers ==
    {[tab_number |-> "12345",     fio |-> "Ivanov",  tb |-> "CCB", gosb |-> "Lipetsk"],
     [tab_number |-> "23456",     fio |-> "Petrov",  tb |-> "UB",  gosb |-> "Perm"],
     [tab_number |-> "34567",     fio |-> "Sidorov", tb |-> NaN,   gosb |-> NaN],
     [tab_number |-> "80013000",  fio |-> "Prochie", tb |-> "CCB", gosb |-> "Lipetsk"],
     [tab_number |-> "",          fio |-> NaN,       tb |-> "CCB", gosb |-> "Kursk"]}

Values == {"0", "50", "70"}

sheet_row(client, manager, value) ==
    [tab_number  |-> manager.tab_number,
     fio         |-> manager.fio,
     tb          |-> manager.tb,
     gosb        |-> manager.gosb,
     client_id   |-> client.client_id,
     client_name |-> client.client_name,
     value       |-> value]

\* sheets of one row each, all of the same client
OneClientSheets ==
    {<<sheet_row(client, manager, value)>> :
        client \in {c \in Clients : c.client_id = "1"}, manager \in Managers,
        value \in Values}

\* sheets of up to MaxRows rows of two clients
TwoClientRows ==
    {sheet_row(client, cells[1], cells[2]) :
        client \in Clients,
        cells \in {c \in Managers \X Values :
                    \/ c[1].tab_number = "12345" /\ c[2] = "50"
                    \/ c[1].tab_number = "80013000" /\ c[2] = "70"}}

TwoClientSheets == UNION {[1..n -> TwoClientRows] : n \in 1..MaxRows}

\* sheets of one row with cells the validators replace or drop
DirtySheets ==
    {<<[sheet_row(client, manager, value) EXCEPT !.tab_number = tab_number]>> :
        client \in {c \in Clients : c.client_id = "1"},
        manager \in {m \in Managers : m.tab_number = "12345"},
        value \in {NaN, "-", "50", "-20"},
        tab_number \in {"'00012345", "-", "Grey Zone", "100000000", "-5", "abc"}}

\* managers of branches and sub-branches the directory does not hold, or
\* holds under a name that an earlier entry's full name contains
DirectoryManagers ==
    {[tab_number |-> "12345", fio |-> "Ivanov", tb |-> "CCB",   gosb |-> "Lipetsk"],
     [tab_number |-> "45678", fio |-> "Orlov",  tb |-> "Volga", gosb |-> "Samara"],
     [tab_number |-> "56789", fio |-> "Belov",  tb |-> "CCB",   gosb |-> "Orel"],
     [tab_number |-> "67890", fio |-> "Uralov", tb |-> "Ural",  gosb |-> "Perm"]}

\* a first period of three clients and a second period of one client, their
\* managers drawn from DirectoryManagers
DirectorySheets ==
    {<<<<sheet_row([client_id |-> "1", client_name |-> "Alfa"], first_manager, "70"),
         sheet_row([client_id |-> "2", client_name |-> "Alfa"], second_manager, "70"),
         sheet_row([client_id |-> "3", client_name |-> "Alfa"], third_manager, "70")>>,
       <<sheet_row([client_id |-> "1", client_name |-> "Alfa"], earlier_manager, "50")>>>> :
        first_manager \in DirectoryManagers, second_manager \in DirectoryManagers,
        third_manager \in DirectoryManagers, earlier_manager \in DirectoryManagers}

\* managers whose branch and sub-branch names contain the separator of the
\* aggregation keys
SeparatorManagers ==
    {[tab_number |-> "12345", fio |-> "Ivanov", tb |-> "A_B", gosb |-> "C"],
     [tab_number |-> "12345", fio |-> "Ivanov", tb |-> "A",   gosb |-> "B_C"]}

\* sheets of one row of the same client under such a manager
SeparatorSheets ==
    {<<sheet_row(client, manager, "50")>> :
        client \in {c \in Clients : c.client_id = "1"}, manager \in SeparatorManagers}

\* value cells whose sums exceed the floats that are exact
RoundingValues == {"1", "1365", "1366"}

\* sheets of two clients of different branches with such values
RoundingSheets ==
    {<<sheet_row(first_client, first_manager, first_value),
       sheet_row(second_client, second_manager, second_value)>> :
        first_client \in {c \in Clients : c.client_id = "1"},
        first_manager \in {m \in Managers : m.tab_number = "12345"},
        second_client \in {c \in Clients : c.client_id = "2"},
        second_manager \in {m \in Managers : m.tab_number = "23456"},
        first_value \in RoundingValues,
        second_value \in RoundingValues}

(***************************************************************************)
(* The run: run_analysis.  The modes 2, 3 and 4 run the same analysis      *)
(* steps (_run_analysis_on_test_data and _run_analysis_on_normal_data      *)
(* differ in the files _get_files_for_mode names, and sheets is what those *)
(* files hold when they are read).                                         *)
(***************************************************************************)
Init ==
    /\ \/ /\ program_mode = 3
          /\ aggregation_mode \in AggregationModes
          /\ \/ file_count \in {2, 3} /\ sheets \in [1..file_count -> OneClientSheets]
             \/ file_count = 2 /\ sheets \in [1..file_count -> TwoClientSheets]
             \/ file_count = 2 /\ sheets \in [1..file_count -> DirtySheets]
             \/ file_count = 2 /\ sheets \in [1..file_count -> SeparatorSheets]
             \/ file_count \in 0..CONFIGURED_FILES \ {2, 3}
                  /\ sheets \in [1..file_count -> OneClientSheets]
       \/ /\ program_mode = 3
          /\ aggregation_mode \in UnsupportedModes
          /\ file_count = 2
          /\ sheets \in [1..file_count -> OneClientSheets]
       \/ /\ program_mode = 3
          /\ aggregation_mode = 1
          /\ file_count = 2
          /\ sheets \in DirectorySheets
       \/ /\ program_mode \in ProgramModes \cup UnsupportedProgramModes
          /\ aggregation_mode = 1
          /\ file_count = 2
          /\ sheets \in [1..file_count -> OneClientSheets]
    /\ test_data = "none"
    /\ data_frames = <<>>
    /\ clients_base = <<>>
    /\ managers_summary = {}
    /\ managers_deal_date_summary = {}
    /\ pc = "start"

\* _generate_test_data_only, called in the modes 1 and 4: create_test_files
\* writes the test files or raises; mode 1 then returns
generate_test_data_only ==
    /\ pc = "start"
    /\ program_mode \in {1, 4}
    /\ test_data = "none"
    /\ \/ /\ test_data' = "generated"
          /\ pc' = IF program_mode = 1 THEN "returned" ELSE "start"
       \/ /\ test_data' = "raised"
          /\ pc' = "failed"
    /\ UNCHANGED <<file_count, aggregation_mode, program_mode, sheets, data_frames,
                   clients_base, managers_summary, managers_deal_date_summary>>

\* run_analysis, the else branch: ValueError for a mode other than 1..4
unsupported_program_mode ==
    /\ pc = "start"
    /\ program_mode \notin ProgramModes
    /\ pc' = "failed"
    /\ UNCHANGED <<file_count, aggregation_mode, program_mode, test_data, sheets,
                   data_frames, clients_base, managers_summary,
                   managers_deal_date_summary>>

\* load_all_files reached whatever the mode and before any test data exist
load_all_files_any_mode ==
    /\ pc = "start"
    /\ data_frames' = [k \in 1..file_count |-> load_excel_file(sheets[k])]
    /\ pc' = "loaded"
    /\ UNCHANGED <<file_count, aggregation_mode, program_mode, test_data, sheets,
                   clients_base, managers_summary, managers_deal_date_summary>>

\* load_all_files, the first step of the analysis: at once in the modes 2
\* and 3, after _generate_test_data_only in mode 4
load_all_files ==
    /\ pc = "start"
    /\ \/ program_mode \in {2, 3}
       \/ program_mode = 4 /\ test_data = "generated"
    /\ data_frames' = [k \in 1..file_count |-> load_excel_file(sheets[k])]
    /\ pc' = "loaded"
    /\ UNCHANGED <<file_count, aggregation_mode, program_mode, test_data, sheets,
                   clients_base, managers_summary, managers_deal_date_summary>>

\* create_clients_base, the registry returned when list(all_client_keys)
\* enumerates the keys in the order keys
clients_base_of(keys) ==
    LET joined == [idx \in 1..Len(keys) |-> registry_row(keys[idx])]
        resolved == resolve_managers(joined, file_count)
    IN  mask_reserved_finals(process_special_zones(resolved))

\* create_clients_base.  A period without rows makes groupby('client_key')
\* raise KeyError on the empty period_df.
create_clients_base ==
    /\ pc = "loaded"
    /\ IF \E k \in 1..file_count : data_frames[k] = <<>>
       THEN /\ pc' = "failed"
            /\ UNCHANGED clients_base
       ELSE \E keys \in Orders(all_client_keys) :
                /\ clients_base' = clients_base_of(keys)
                /\ pc' = "clients_base"
    /\ UNCHANGED <<file_count, aggregation_mode, program_mode, test_data, sheets,
                   data_frames, managers_summary, managers_deal_date_summary>>

\* calculate_growth without the ValueError of its else branch: an unsupported
\* period count gets growth 0
calculate_growth_any_count ==
    /\ pc = "clients_base"
    /\ clients_base' =
            [idx \in 1..Len(clients_base) |->
                [growth |-> IF file_count = 2 \/ file_count = 3
                            THEN growth_of(period_values(clients_base[idx]))
                            ELSE 0]
                    @@ clients_base[idx]]
    /\ pc' = "growth"
    /\ UNCHANGED <<file_count, aggregation_mode, program_mode, test_data, sheets,
                   data_frames, managers_summary, managers_deal_date_summary>>

\* calculate_growth
calculate_growth ==
    /\ pc = "clients_base"
    /\ IF file_count = 2 \/ file_count = 3
       THEN /\ clients_base' =
                [idx \in 1..Len(clients_base) |->
                    [growth |-> growth_of(period_values(clients_base[idx]))]
                        @@ clients_base[idx]]
            /\ pc' = "growth"
       ELSE /\ pc' = "failed"                  \* ValueError
            /\ UNCHANGED clients_base
    /\ UNCHANGED <<file_count, aggregation_mode, program_mode, test_data, sheets,
                   data_frames, managers_summary, managers_deal_date_summary>>

\* create_managers_summary; it also adds the manager_key column to the
\* registry
create_managers_summary ==
    /\ pc = "growth"
    /\ LET keyed == [idx \in 1..Len(clients_base) |->
                        [manager_key |->
                            get_manager_aggregation_key_from_final(clients_base[idx])]
                            @@ clients_base[idx]]
       IN  /\ clients_base' = keyed
           /\ managers_summary' = managers_summary_of(keyed)
    /\ pc' = "managers_summary"
    /\ UNCHANGED <<file_count, aggregation_mode, program_mode, test_data, sheets,
                   data_frames, managers_deal_date_summary>>

\* create_managers_deal_date_summary
create_managers_deal_date_summary ==
    /\ pc = "managers_summary"
    /\ managers_deal_date_summary' = managers_deal_date_summary_of
    /\ pc' = "deal_date_summary"
    /\ UNCHANGED <<file_count, aggregation_mode, program_mode, test_data, sheets,
                   data_frames, clients_base, managers_summary>>

\* create_output_file invoked although a step before it has raised
create_output_file_after_failure ==
    /\ pc \in {"deal_date_summary", "failed"}
    /\ pc' = "done"
    /\ UNCHANGED <<file_count, aggregation_mode, program_mode, test_data, sheets,
                   data_frames, clients_base, managers_summary,
                   managers_deal_date_summary>>

\* create_output_file: the workbook itself is not modelled
create_output_file ==
    /\ pc = "deal_date_summary"
    /\ pc' = "done"
    /\ UNCHANGED <<file_count, aggregation_mode, program_mode, test_data, sheets,
                   data_frames, clients_base, managers_summary,
                   managers_deal_date_summary>>

Next ==
    \/ generate_test_data_only
    \/ unsupported_program_mode
    \/ load_all_files
    \/ create_clients_base
    \/ calculate_growth
    \/ create_managers_summary
    \/ create_managers_deal_date_summary
    \/ create_output_file

Spec == Init /\ [][Next]_vars

\* the runs of two periods over the sheets whose sums are rounded
InitRounding ==
    /\ program_mode \in ProgramModes \cup UnsupportedProgramModes
    /\ test_data = "none"
    /\ aggregation_mode \in AggregationModes
    /\ file_count = 2
    /\ sheets \in [1..file_count -> RoundingSheets]
    /\ data_frames = <<>>
    /\ clients_base = <<>>
    /\ managers_summary = {}
    /\ managers_deal_date_summary = {}
    /\ pc = "start"

SpecRounding == InitRounding /\ [][Next]_vars

(***************************************************************************)
(* Properties                                                              *)
(***************************************************************************)
\* the registry exists: create_clients_base has returned
RegistryBuilt ==
    pc \in {"clients_base", "growth", "managers_summary", "deal_date_summary", "done"}

GrowthCalculated == pc \in {"growth", "managers_summary", "deal_date_summary", "done"}

SummaryCreated == pc \in {"managers_summary", "deal_date_summary", "done"}

DealDateSummaryCreated == pc \in {"deal_date_summary", "done"}

\* a row appended by the special-zone processing
IsSpecialZoneRow(row) ==
    Len(row.client_key) >= 8 /\ SubSeq(row.client_key, 1, 8) = "special_"

ClientRows == {idx \in 1..Len(clients_base) : ~IsSpecialZoneRow(clients_base[idx])}

SpecialZoneRows == {idx \in 1..Len(clients_base) : IsSpecialZoneRow(clients_base[idx])}

Periods == 1..file_count

\* leading digit of the 8-digit zero-padded form of a number below 10^8
LeadingDigit(tab_number) == tab_number \div 10000000

\* the identifier patterns 8XXYYYYY/9XXYYYYY that resolution skips
ExcludedPattern(tab_number) ==
    tab_number # GREY_ZONE_TAB /\ LeadingDigit(tab_number) \in {8, 9}

\* period j passes the consistency check of a row that is not yet resolved
\* (its final branch and sub-branch are still empty)
Consistent(row, j) ==
    \/ aggregation_mode \notin {2, 3}
    \/ aggregation_mode = 2 /\ row.period[j].tb = ""
    \/ aggregation_mode = 3 /\ row.period[j].tb = "" /\ row.period[j].gosb = ""

\* period j is accepted by the first scan of manager resolution
Eligible(row, j) ==
    /\ row.period[j].tab_number # 0
    /\ row.period[j].value > 0
    /\ ~ExcludedPattern(row.period[j].tab_number)
    /\ Consistent(row, j)

\* the sum of f[x] over the x in S
RECURSIVE SetSum(_, _)
SetSum(S, f) ==
    IF S = {} THEN 0
    ELSE LET x == CHOOSE y \in S : TRUE IN f[x] + SetSum(S \ {x}, f)

\* C1 as stated: after manager resolution no client row has a final number
\* whose 8-digit form begins with 8.
C1_NoOtherZoneFinal ==
    RegistryBuilt =>
        \A idx \in ClientRows : LeadingDigit(clients_base[idx].final_tab_number) # 8

\* C1 amended: a client row has a final number beginning with 8 only through
\* the last-resort fallback, that is only when none of its periods is
\* accepted by the first scan (nonzero non-excluded number, positive value,
\* consistency check passed).
C1_OtherZoneFinalOnlyByFallback ==
    RegistryBuilt =>
        \A idx \in ClientRows :
            LeadingDigit(clients_base[idx].final_tab_number) = 8 =>
                ~\E j \in Periods : Eligible(clients_base[idx], j)

\* a client row resolved to an 8-prefixed number beside a period of a
\* regular manager
C1_Witness ==
    /\ RegistryBuilt
    /\ \E idx \in ClientRows :
        /\ LeadingDigit(clients_base[idx].final_tab_number) = 8
        /\ \E j \in Periods :
            /\ clients_base[idx].period[j].tab_number = 12345
            /\ clients_base[idx].period[j].value = 0

\* C2: after calculate_growth every registry row, client or special zone,
\* has growth = v1 - v2 with two periods and (v1 - v2) - (v2 - v3) with three.
C2_GrowthFormula ==
    GrowthCalculated =>
        \A idx \in 1..Len(clients_base) :
            LET row == clients_base[idx]
                v == [k \in Periods |-> row.period[k].value]
            IN  /\ file_count = 2 => row.growth = v[1] - v[2]
                /\ file_count = 3 => row.growth = (v[1] - v[2]) - (v[2] - v[3])

\* three periods, a client row with negative growth and a special-zone row
C2_Witness ==
    /\ GrowthCalculated
    /\ file_count = 3
    /\ \E idx \in ClientRows :
        /\ clients_base[idx].growth < 0
        /\ clients_base[idx].period[1].value # clients_base[idx].period[3].value
    /\ \E idx \in SpecialZoneRows : clients_base[idx].growth # 0

\* the registry rows grouped into summary row s
MappedRows(s) ==
    {idx \in 1..Len(clients_base) :
        get_manager_aggregation_key_from_final(clients_base[idx]) = s.manager_key}

\* C3: every registry row, client or special zone, is mapped to exactly one
\* row of the canonical summary, the one with the row's manager key, and each
\* summary value_k is the sum of value_period_k over the rows mapped to it.
C3_CanonicalValueConservation ==
    SummaryCreated =>
        /\ \A idx \in 1..Len(clients_base) :
            Cardinality({s \in managers_summary :
                s.manager_key =
                    get_manager_aggregation_key_from_final(clients_base[idx])}) = 1
        /\ \A s \in managers_summary :
            /\ MappedRows(s) # {}
            /\ \A k \in Periods :
                s.value[k] =
                    SetSum(MappedRows(s),
                           [idx \in MappedRows(s) |-> clients_base[idx].period[k].value])

\* two client rows with different values under one summary row, beside
\* other summary rows
C3_Witness ==
    /\ SummaryCreated
    /\ aggregation_mode = 3
    /\ \E s \in managers_summary :
        \E i, j \in MappedRows(s) \cap ClientRows :
            /\ i # j
            /\ clients_base[i].period[1].value # clients_base[j].period[1].value
            /\ clients_base[j].period[1].value # 0
            /\ clients_base[i].period[2].value # 0
    /\ Cardinality(managers_summary) > 2

\* the rows of period k's loaded sheet that carry manager number tab_num
RecordsOf(tab_num, k) ==
    {i \in 1..Len(data_frames[k]) : data_frames[k][i].tab_number = tab_num}

\* the manager numbers of the loaded sheets
RawManagerIds ==
    UNION {{data_frames[k][i].tab_number : i \in 1..Len(data_frames[k])} : k \in Periods}

\* C4: the deal-date summary has exactly one row per manager number of the
\* loaded sheets, and its value_k is the sum of value over the period-k rows
\* with that number, 0 when there is none; final_* assignments play no part.
C4_DealDateValueConservation ==
    DealDateSummaryCreated =>
        /\ {row.tab_number : row \in managers_deal_date_summary} = RawManagerIds
        /\ Cardinality(managers_deal_date_summary) = Cardinality(RawManagerIds)
        /\ \A row \in managers_deal_date_summary :
            \A k \in Periods :
                row.value[k] =
                    SetSum(RecordsOf(row.tab_number, k),
                           [i \in RecordsOf(row.tab_number, k) |-> data_frames[k][i].value])

\* a manager with two rows in one period and none in the other
C4_Witness ==
    /\ DealDateSummaryCreated
    /\ \E row \in managers_deal_date_summary :
        /\ Cardinality(RecordsOf(row.tab_number, 2)) = 2
        /\ RecordsOf(row.tab_number, 1) = {}
        /\ row.value[2] > 0
        /\ row.value[1] = 0
    /\ Cardinality(managers_deal_date_summary) = 2

\* C5 as stated: for each period the values of the canonical summary add up
\* to the values of the period's loaded rows, special-zone rows included.
C5_TotalValueConservation ==
    SummaryCreated =>
        \A k \in Periods :
            SetSum(managers_summary, [s \in managers_summary |-> s.value[k]])
                = sum(column(data_frames[k], "value"))

\* the periods of a row that carry a nonzero manager number outside the
\* excluded patterns
Candidates(row) ==
    {j \in Periods :
        row.period[j].tab_number # 0 /\ ~ExcludedPattern(row.period[j].tab_number)}

\* the final_* fields of row are the assignment of period j
FinalFromPeriod(row, j) ==
    /\ row.final_tab_number = row.period[j].tab_number
    /\ row.final_fio = row.period[j].fio
    /\ row.final_tb = row.period[j].tb
    /\ row.final_gosb = row.period[j].gosb

\* C6 as stated: at granularity 1 a client row with a candidate period gets
\* the assignment of a candidate period of largest value.
C6_SelectionRule ==
    RegistryBuilt /\ aggregation_mode = 1 =>
        \A idx \in ClientRows :
            LET row == clients_base[idx] IN
            Candidates(row) # {} =>
                \E j \in Candidates(row) :
                    /\ \A i \in Candidates(row) : row.period[i].value <= row.period[j].value
                    /\ FinalFromPeriod(row, j)

\* C7 as stated: a number of the excluded pattern is a client row's final
\* manager only if no period of the row carries a nonzero number that is not
\* excluded.
C7_FallbackOnlyWithoutCandidate ==
    RegistryBuilt =>
        \A idx \in ClientRows :
            ExcludedPattern(clients_base[idx].final_tab_number) =>
                Candidates(clients_base[idx]) = {}

\* C8 as stated: no client row ends resolution with final number 70000000 or
\* 90000000.
C8_NoSentinelFinal ==
    RegistryBuilt =>
        \A idx \in ClientRows :
            clients_base[idx].final_tab_number \notin {NEW_CASES_TAB, GREY_ZONE_TAB}

\* C8 amended: 70000000 and 90000000 are ordinary candidates.  A client row
\* ends with one of them as final number only at a granularity other than 2
\* and 3 and only from a period that carries it with a positive value no
\* candidate period exceeds; the final branch and sub-branch are then "-".
C8_SentinelFinalIsSelectedPeriod ==
    RegistryBuilt =>
        \A idx \in ClientRows :
            LET row == clients_base[idx] IN
            row.final_tab_number \in {NEW_CASES_TAB, GREY_ZONE_TAB} =>
                /\ aggregation_mode \notin {2, 3}
                /\ row.final_tb = "-"
                /\ row.final_gosb = "-"
                /\ \E j \in Periods :
                    /\ FinalFromPeriod(row, j)
                    /\ row.period[j].value > 0
                    /\ \A i \in Candidates(row) : row.period[i].value <= row.period[j].value

\* rows finally assigned 70000000 and 90000000 beside a regular manager's
\* period of smaller value
C8_Witness ==
    /\ RegistryBuilt
    /\ file_count = 2
    /\ \E idx \in ClientRows :
        /\ clients_base[idx].final_tab_number = NEW_CASES_TAB
        /\ \E j \in Periods :
            /\ clients_base[idx].period[j].tab_number = 12345
            /\ clients_base[idx].period[j].value = 50

\* an empty manager cell
BlankCell(cell) == strip(cell) \in {"", NaN}

\* the rows of period k's sheet of the client of a registry row
SheetRowsOf(row, k) ==
    {i \in 1..Len(sheets[k]) :
        zfill(drop_apostrophes(sheets[k][i].client_id), CLIENT_ID_WIDTH) = row.client_id}

\* the client of the row has rows in every period, all with an empty
\* manager cell
BlankInEveryPeriod(row) ==
    \A k \in Periods :
        /\ SheetRowsOf(row, k) # {}
        /\ \A i \in SheetRowsOf(row, k) : BlankCell(sheets[k][i].tab_number)

\* C9 as stated: a client whose manager id is blank in every period gets the
\* grey-zone number 90000000 as final manager id.
C9_BlankResolvesToGreyZone ==
    RegistryBuilt =>
        \A idx \in ClientRows :
            BlankInEveryPeriod(clients_base[idx]) =>
                clients_base[idx].final_tab_number = GREY_ZONE_TAB

\* C9 amended: such a client's final manager id is the new-cases number
\* 70000000 when the granularity is neither 2 nor 3 and some period value is
\* positive, and stays 0 otherwise.
C9_BlankResolvesToNewCases ==
    RegistryBuilt =>
        \A idx \in ClientRows :
            LET row == clients_base[idx] IN
            BlankInEveryPeriod(row) =>
                row.final_tab_number =
                    IF /\ aggregation_mode \notin {2, 3}
                       /\ \E k \in Periods : row.period[k].value > 0
                    THEN NEW_CASES_TAB
                    ELSE 0

\* a three-period client with empty manager cells throughout, resolved
C9_Witness ==
    /\ RegistryBuilt
    /\ file_count = 3
    /\ \E idx \in ClientRows :
        /\ BlankInEveryPeriod(clients_base[idx])
        /\ clients_base[idx].final_tab_number = NEW_CASES_TAB

\* the branch and sub-branch names a client row is filed under
BranchesOf(row) == {row.final_tb} \cup {row.period[k].tb : k \in Periods}

SubBranchesOf(row) == {row.final_gosb} \cup {row.period[k].gosb : k \in Periods}

\* the client rows a special-zone row stands for: the unresolved rows (grey
\* zone) or the rows carrying an 8-prefixed manager number (other zone) of
\* the whole registry, of its branch, or of its branch and sub-branch
Constituents(bucket) ==
    {idx \in ClientRows :
        LET row == clients_base[idx] IN
        /\ IF Head(ToString(bucket.final_tab_number)) = "9"
           THEN row.final_tab_number = 0
           ELSE \/ LeadingDigit(row.final_tab_number) = 8
                \/ \E k \in Periods : LeadingDigit(row.period[k].tab_number) = 8
        /\ bucket.final_tb # "-" => bucket.final_tb \in BranchesOf(row)
        /\ bucket.final_gosb # "-" => bucket.final_gosb \in SubBranchesOf(row)}

\* C10 as stated: each special-zone row's value_period_k is the sum over its
\* constituent client rows; rows resolved to regular managers contribute to
\* no special-zone row.
C10_BucketContents ==
    RegistryBuilt =>
        \A b \in SpecialZoneRows :
            \A k \in Periods :
                clients_base[b].period[k].value =
                    SetSum(Constituents(clients_base[b]),
                           [idx \in Constituents(clients_base[b]) |->
                                clients_base[idx].period[k].value])

\* C11 as stated: a special-zone row is appended only if at least one client
\* row matches it, an unresolved row of its partition for the grey zone, a row
\* with an 8-prefixed manager number for the other zone; the rows 90000000
\* and 80000000 included.
C11_NoEmptyBuckets ==
    RegistryBuilt =>
        \A b \in SpecialZoneRows : Constituents(clients_base[b]) # {}

\* branch and sub-branch codes of one to two and one to six digits
BranchCodes == {1, 9, 10, 13, 99}

SubBranchCodes == {1, 42, 999, 8593, 99999, 100000, 999999}

\* the directory code of a special-zone row's branch, 0 for "-"
BucketBranchCode(row) == get_tb_code_from_name(row.final_tb)

\* the directory code of a special-zone row's sub-branch, 0 for "-"
BucketSubBranchCode(row) ==
    get_gosb_code_from_name(row.final_gosb, BucketBranchCode(row))

\* the number the encoding gives a zone with leading digit d and base number
\* base: base, base + b*1000, or the digits d, two of b, six of s
EncodedId(d, base, b, s) ==
    IF b = 0 THEN base
    ELSE IF s = 0 THEN base + b * 1000
    ELSE d * 100000000 + b * 1000000 + s

KeysOfPeriod(k) ==
    {get_client_aggregation_key(data_frames[k][i]) : i \in 1..Len(data_frames[k])}

\* C13: the registry rows that precede the special-zone rows are exactly one
\* row per client aggregation key occurring in some period, and no row has a
\* key that occurs in no period.
C13_RegistryKeys ==
    RegistryBuilt =>
        /\ \A k \in Periods : \A key \in KeysOfPeriod(k) :
            Cardinality({idx \in ClientRows : clients_base[idx].client_key = key}) = 1
        /\ \A idx \in ClientRows :
            \E k \in Periods : clients_base[idx].client_key \in KeysOfPeriod(k)
        /\ \A idx \in ClientRows : \A b \in SpecialZoneRows : idx < b

\* two keys of one client at granularity 2, one of them found in the second
\* period only, and special-zone rows behind them
C13_Witness ==
    /\ RegistryBuilt
    /\ aggregation_mode = 2
    /\ Cardinality(ClientRows) = 2
    /\ SpecialZoneRows # {}
    /\ \E idx \in ClientRows :
        /\ clients_base[idx].client_key \notin KeysOfPeriod(1)
        /\ clients_base[idx].client_key \in KeysOfPeriod(2)

\* the rows of period k's loaded sheet that have the aggregation key of row
RecordsOfKey(row, k) ==
    {i \in 1..Len(data_frames[k]) :
        get_client_aggregation_key(data_frames[k][i]) = row.client_key}

\* C14: for every client row and period k, value_period_k is the sum of value
\* over the period-k records with the row's key; when there is none the
\* period's value and manager number are 0 and its name, branch and
\* sub-branch are empty.
C14_PerPeriodJoin ==
    RegistryBuilt =>
        \A idx \in ClientRows : \A k \in Periods :
            LET row == clients_base[idx]
                records == RecordsOfKey(row, k)
            IN  /\ row.period[k].value =
                    SetSum(records, [i \in records |-> data_frames[k][i].value])
                /\ records = {} =>
                    /\ row.period[k].value = 0
                    /\ row.period[k].tab_number = 0
                    /\ row.period[k].fio = ""
                    /\ row.period[k].tb = ""
                    /\ row.period[k].gosb = ""

\* a client row with two records of different managers in one period and no
\* record in the other
C14_Witness ==
    /\ RegistryBuilt
    /\ \E idx \in ClientRows :
        LET row == clients_base[idx] IN
        /\ Cardinality(RecordsOfKey(row, 1)) = 2
        /\ row.period[1].value = 120
        /\ RecordsOfKey(row, 2) = {}
        /\ row.period[2].tab_number = 0

\* the period count calculate_growth accepts
SupportedPeriodCount == file_count \in {2, 3}

\* C15 as stated: with a period count other than 2 or 3 create_clients_base
\* raises and no registry is produced.
C15_RegistryBuilderRejectsPeriodCount ==
    ~SupportedPeriodCount => pc # "clients_base" /\ clients_base = <<>>

\* C15 amended: create_clients_base does not test the period count.  With a
\* count other than 2 or 3 it returns the registry of the periods loaded and
\* the error is raised by the next step, calculate_growth: the run never gets
\* past it, and the registry it stops with has no growth column.
C15_PeriodCountRejectedByGrowth ==
    ~SupportedPeriodCount =>
        /\ pc \in {"start", "loaded", "clients_base", "failed"}
        /\ pc = "failed" /\ (\A k \in Periods : data_frames[k] # <<>>) =>
            /\ \A k \in Periods : \A key \in KeysOfPeriod(k) :
                \E idx \in ClientRows : clients_base[idx].client_key = key
            /\ \A idx \in 1..Len(clients_base) : "growth" \notin DOMAIN clients_base[idx]

\* a run of one period stopped by calculate_growth with its registry built
C15_Witness ==
    /\ file_count = 1
    /\ pc = "failed"
    /\ ClientRows # {}
    /\ SpecialZoneRows # {}

\* C16 as stated: with a granularity other than 1, 2 and 3 the run aborts
\* before create_output_file is invoked.
C16_UnsupportedGranularityAborts ==
    aggregation_mode \notin AggregationModes => pc # "done"

\* C16 amended: a granularity other than 1, 2 and 3 is no error.  The key
\* functions take their default branch, the keys of granularity 1: client
\* rows are keyed by client id, summary rows by final manager number, every
\* period passes the consistency check, and the run does not fail.
C16_UnsupportedGranularityIsGranularityOne ==
    aggregation_mode \notin AggregationModes =>
        /\ pc # "failed"
        /\ RegistryBuilt =>
            \A idx \in ClientRows :
                /\ clients_base[idx].client_key = clients_base[idx].client_id
                /\ \A j \in Periods :
                    check_manager_client_match(clients_base[idx], j, aggregation_mode)
        /\ SummaryCreated =>
            \A idx \in 1..Len(clients_base) :
                clients_base[idx].manager_key =
                    ToString(clients_base[idx].final_tab_number)

\* a finished run at granularity 4 whose client changed branch and manager
C16_Witness ==
    /\ aggregation_mode = 4
    /\ pc = "done"
    /\ \E idx \in ClientRows :
        /\ clients_base[idx].period[1].tb # clients_base[idx].period[2].tb
        /\ clients_base[idx].final_tab_number = 23456

\* the steps of an analysis run, each from the completed step before it
StepsInOrder ==
    \/ pc = "start" /\ pc' \in {"start", "returned", "failed"} /\ UNCHANGED data_frames
    \/ pc = "start" /\ pc' = "loaded"
    \/ pc = "loaded" /\ pc' \in {"clients_base", "failed"}
    \/ pc = "clients_base" /\ pc' \in {"growth", "failed"}
    \/ pc = "growth" /\ pc' = "managers_summary"
    \/ pc = "managers_summary" /\ pc' = "deal_date_summary"
    \/ pc = "deal_date_summary" /\ pc' = "done"

\* C17: create_output_file is invoked at most once and only after
\* load_all_files, create_clients_base, calculate_growth,
\* create_managers_summary and create_managers_deal_date_summary have
\* completed in that order; once a step has raised nothing more is invoked.
C17_NoPartialOutput == [][StepsInOrder]_vars

\* a finished three-period run, its registry and both summaries filled
C17_Witness ==
    /\ pc = "done"
    /\ file_count = 3
    /\ clients_base # <<>>
    /\ managers_summary # {}
    /\ managers_deal_date_summary # {}

\* every period of the row names the same regular manager with the same
\* non-empty branch and sub-branch and a positive value
SameManagerEveryPeriod(row) ==
    /\ row.period[1].tab_number \notin {0, NEW_CASES_TAB, GREY_ZONE_TAB}
    /\ ~ExcludedPattern(row.period[1].tab_number)
    /\ row.period[1].tb \notin {"", "-"}
    /\ row.period[1].gosb \notin {"", "-"}
    /\ \A k \in Periods :
        /\ row.period[k].tab_number = row.period[1].tab_number
        /\ row.period[k].tb = row.period[1].tb
        /\ row.period[k].gosb = row.period[1].gosb
        /\ row.period[k].value > 0

\* C19 as stated: at each granularity 1, 2 and 3 a client whose records name
\* the same regular manager, branch and sub-branch in every period, with
\* positive values, ends with that manager as final manager.
C19_SameManagerIsFinal ==
    RegistryBuilt /\ aggregation_mode \in AggregationModes /\ Periods # {} =>
        \A idx \in ClientRows :
            SameManagerEveryPeriod(clients_base[idx]) =>
                FinalFromPeriod(clients_base[idx], 1)

\* the client of scenario C: value 50 under one manager in period 1, value 70
\* under another in period 2
ScenarioC(row) ==
    /\ file_count = 2
    /\ aggregation_mode = 1
    /\ row.period[1].tab_number = 12345
    /\ row.period[1].value = 50
    /\ row.period[2].tab_number = 23456
    /\ row.period[2].value = 70

\* C20 as stated: the client of scenario C gets growth 70 - 50 = 20.
C20_ScenarioCGrowthIs20 ==
    GrowthCalculated =>
        \A idx \in ClientRows : ScenarioC(clients_base[idx]) => clients_base[idx].growth = 20

\* C20 amended: period 1 is the current period and period 2 the previous
\* one, so the client of scenario C gets growth 50 - 70 = -20.
C20_ScenarioCGrowthIsMinus20 ==
    GrowthCalculated =>
        \A idx \in ClientRows : ScenarioC(clients_base[idx]) => clients_base[idx].growth = -20

\* the client of scenario C after calculate_growth, resolved to the manager
\* of the larger value
C20_Witness ==
    /\ GrowthCalculated
    /\ \E idx \in ClientRows :
        /\ ScenarioC(clients_base[idx])
        /\ clients_base[idx].final_tab_number = 23456

\* the rows of a registry with the growth calculate_growth gives them
RowsWithGrowth(base) ==
    {[growth |-> growth_of(period_values(base[idx]))] @@ base[idx] : idx \in 1..Len(base)}

\* C18 as stated: whatever the order in which the keys of the key union are
\* enumerated, the registry built from the same periods and configuration
\* has the same set of rows, before and after the growth column is added.
C18_RegistryOrderIndependent ==
    pc = "clients_base" =>
        \A keys \in Orders(all_client_keys) :
            /\ range(clients_base_of(keys)) = range(clients_base)
            /\ SupportedPeriodCount =>
                RowsWithGrowth(clients_base_of(keys)) = RowsWithGrowth(clients_base)

\* the directory codes of a row's final branch and sub-branch, 0 when the
\* name has none
FinalBranchCode(row) == get_tb_code_from_name(row.final_tb)

FinalSubBranchCode(row) ==
    get_gosb_code_from_name(row.final_gosb, FinalBranchCode(row))

\* the special-zone rows of a branch and of a branch and sub-branch
BranchBuckets ==
    {b \in SpecialZoneRows :
        clients_base[b].final_tb # "-" /\ clients_base[b].final_gosb = "-"}

SubBranchBuckets ==
    {b \in SpecialZoneRows :
        clients_base[b].final_tb # "-" /\ clients_base[b].final_gosb # "-"}

\* the client rows whose final branch (and sub-branch) has the directory
\* code of the special-zone row
RowsOfBranch(bucket) ==
    {idx \in ClientRows :
        /\ FinalBranchCode(clients_base[idx]) > 0
        /\ FinalBranchCode(clients_base[idx]) = FinalBranchCode(bucket)}

RowsOfSubBranch(bucket) ==
    {idx \in RowsOfBranch(bucket) :
        /\ FinalSubBranchCode(clients_base[idx]) > 0
        /\ FinalSubBranchCode(clients_base[idx]) = FinalSubBranchCode(bucket)}

\* a client row whose final branch name the directory does not resolve
BranchLookupMiss(row) ==
    row.final_tb \notin {"", "-"} /\ FinalBranchCode(row) = 0

\* a client row whose final branch resolves and whose sub-branch does not
SubBranchLookupMiss(row) ==
    /\ FinalBranchCode(row) > 0
    /\ row.final_gosb \notin {"", "-"}
    /\ FinalSubBranchCode(row) = 0

\* the run has raised for a reason other than a lookup: an unsupported
\* program mode, a failed generation of test data, a period without rows or
\* a period count that is neither 2 nor 3
AbortExplained ==
    \/ program_mode \notin ProgramModes
    \/ test_data = "raised"
    \/ \E k \in DOMAIN data_frames : data_frames[k] = <<>>
    \/ file_count \notin {2, 3}

\* C21: in the registry of a finished run the values of a per-branch
\* special-zone row are the sums over the client rows whose final branch
\* has its code, those of a per-branch-per-sub-branch row the sums over the client rows whose final
\* branch and sub-branch have its codes, so a row whose branch has no code
\* adds to neither and a row whose sub-branch has no code adds to no
\* per-branch-per-sub-branch row; every key of the periods keeps its client
\* row, and the run raises only for an unsupported program mode, a failed
\* generation of test data, an empty period or an unsupported period count.
C21_LookupMissLeavesRowUnpartitioned ==
    /\ pc = "done" =>
        /\ \A b \in BranchBuckets : \A k \in Periods :
            clients_base[b].period[k].value =
                SetSum(RowsOfBranch(clients_base[b]),
                       [idx \in RowsOfBranch(clients_base[b]) |->
                            clients_base[idx].period[k].value])
        /\ \A b \in SubBranchBuckets : \A k \in Periods :
            clients_base[b].period[k].value =
                SetSum(RowsOfSubBranch(clients_base[b]),
                       [idx \in RowsOfSubBranch(clients_base[b]) |->
                            clients_base[idx].period[k].value])
    /\ RegistryBuilt =>
        \A k \in Periods : \A key \in KeysOfPeriod(k) :
            \E idx \in ClientRows : clients_base[idx].client_key = key
    /\ pc = "failed" => AbortExplained

\* a finished run whose registry holds a row of an unknown branch, a row of a
\* known branch and unknown sub-branch and a row the directory resolves, next
\* to the special-zone rows of that branch and sub-branch
C21_Witness ==
    /\ pc = "done"
    /\ \E miss, half, hit \in ClientRows :
        /\ BranchLookupMiss(clients_base[miss])
        /\ clients_base[miss].period[1].value = 70
        /\ SubBranchLookupMiss(clients_base[half])
        /\ FinalSubBranchCode(clients_base[hit]) > 0
        /\ \E b \in BranchBuckets :
            /\ RowsOfBranch(clients_base[b]) = {half, hit}
            /\ clients_base[b].period[1].value = 140
        /\ \E b \in SubBranchBuckets :
            /\ RowsOfSubBranch(clients_base[b]) = {hit}
            /\ clients_base[b].period[1].value = 70

\* a value cell that is missing or that _validate_value does not read as a
\* number
MissingOrInvalidValue(cell) ==
    \/ isna(cell)
    \/ strip(cell) \in {"", "-", "None", "null"}
    \/ ~IsNumeric(strip(cell))

\* C22 as stated: every sheet row with a client id whose value cell is
\* missing or invalid is a record of the loaded period with value 0.
C22_MissingValueKeptAsZero ==
    pc = "loaded" =>
        \A k \in Periods : \A i \in 1..Len(sheets[k]) :
            LET cells == sheets[k][i] IN
            ~isna(cells.client_id) /\ MissingOrInvalidValue(cells.value) =>
                \E n \in 1..Len(data_frames[k]) :
                    /\ data_frames[k][n].client_id =
                            zfill(drop_apostrophes(cells.client_id), CLIENT_ID_WIDTH)
                    /\ data_frames[k][n].value = 0

\* the registry as _process_special_zones receives it: the rows of the keys
\* in the order the registry lists them, after manager resolution
RegistryBeforeSpecialZones ==
    LET n == Cardinality(all_client_keys)
        keys == [idx \in 1..n |-> clients_base[idx].client_key]
    IN  resolve_managers([idx \in 1..n |-> registry_row(keys[idx])], file_count)

\* the branches and the branch and sub-branch pairs the directory resolves
\* for the rows of a registry
ResolvedBranches(base) ==
    {FinalBranchCode(base[idx]) : idx \in 1..Len(base)} \ {0}

ResolvedSubBranches(base) ==
    {<<FinalBranchCode(base[idx]), FinalSubBranchCode(base[idx])>> :
        idx \in {i \in 1..Len(base) :
                    FinalBranchCode(base[i]) > 0 /\ FinalSubBranchCode(base[i]) > 0}}

\* C23: when create_clients_base returns, the rows the registry had before
\* _process_special_zones are still its first rows, each unchanged in every
\* field, and all that follows them is special-zone rows with pairwise
\* distinct keys: for a registry that is not empty one grey-zone and one
\* other-zone row for the whole registry, for each resolved branch and for
\* each resolved branch and sub-branch.
C23_SpecialZonesOnlyAppend ==
    pc = "clients_base" =>
        LET before == RegistryBeforeSpecialZones
            n == Len(before)
        IN  /\ Len(clients_base) >= n
            /\ \A idx \in 1..n : clients_base[idx] = before[idx]
            /\ \A idx \in n + 1..Len(clients_base) : IsSpecialZoneRow(clients_base[idx])
            /\ \A i, j \in n + 1..Len(clients_base) :
                i # j => clients_base[i].client_key # clients_base[j].client_key
            /\ Len(clients_base) - n =
                IF n = 0 THEN 0
                ELSE 2 * (1 + Cardinality(ResolvedBranches(before))
                            + Cardinality(ResolvedSubBranches(before)))

\* a registry of three resolved client rows of two branches followed by the
\* special-zone rows
C23_Witness ==
    /\ pc = "clients_base"
    /\ Cardinality(ClientRows) = 3
    /\ Cardinality(SpecialZoneRows) = 10
    /\ \A idx \in ClientRows : clients_base[idx].final_tab_number # 0

\* no period file has been loaded and no analysis step has run
NoAnalysisStage ==
    /\ pc \in {"start", "returned", "failed"}
    /\ data_frames = <<>>
    /\ clients_base = <<>>
    /\ managers_summary = {}
    /\ managers_deal_date_summary = {}

\* C24: in mode 1 no period file is ever loaded and no output file written,
\* and the run returns with the test data generated; in the modes 2 and 3 no
\* test data are generated; in mode 4 every analysis stage finds the test
\* data generated, and none runs when the generation has raised; in any other
\* mode no stage runs and the run ends raised.
C24_ModeDispatch ==
    /\ program_mode = 1 =>
        /\ NoAnalysisStage
        /\ pc = "returned" => test_data = "generated"
    /\ program_mode \in {2, 3} =>
        /\ test_data = "none"
        /\ pc # "returned"
    /\ program_mode = 4 =>
        /\ ~NoAnalysisStage => test_data = "generated"
        /\ test_data = "raised" => NoAnalysisStage /\ pc = "failed"
        /\ pc # "returned"
    /\ program_mode \notin ProgramModes =>
        /\ NoAnalysisStage
        /\ test_data = "none"
        /\ pc # "returned"

\* a run of mode 4 that has generated the test data and written its output
C24_Witness ==
    /\ program_mode = 4
    /\ test_data = "generated"
    /\ pc = "done"
    /\ clients_base # <<>>

\* the least index of a non-empty set of directory indices
FirstOf(indices) == CHOOSE i \in indices : \A j \in indices : i <= j

\* the code of tb_name by the priority order over the whole directory: an
\* entry of that code, else an entry of that short name, else an entry of
\* that full name, else an entry whose full name contains it
PriorityCode(tb_name) ==
    LET entries == TB_GOSB_CODES.tb_codes
        by_code == {i \in DOMAIN entries :
                        IsNumeric(tb_name) /\ ToNumber(tb_name) = entries[i].code}
        by_short_name == {i \in DOMAIN entries : tb_name = entries[i].short_name}
        by_full_name == {i \in DOMAIN entries : tb_name = entries[i].full_name}
        by_partial_match ==
            {i \in DOMAIN entries :
                entries[i].full_name # "" /\ contains(entries[i].full_name, tb_name)}
    IN  IF tb_name \in {"", "-"} THEN 0
        ELSE IF by_code # {} THEN entries[FirstOf(by_code)].code
        ELSE IF by_short_name # {} THEN entries[FirstOf(by_short_name)].code
        ELSE IF by_full_name # {} THEN entries[FirstOf(by_full_name)].code
        ELSE IF by_partial_match # {} THEN entries[FirstOf(by_partial_match)].code
        ELSE 0

\* C25 as stated: the branch code _get_tb_code_from_name gives the final
\* branch name of a client row is the code of the priority order code, short
\* name, full name, partial match over the whole directory.
C25_BranchLookupPriority ==
    RegistryBuilt =>
        \A idx \in ClientRows :
            get_tb_code_from_name(clients_base[idx].final_tb) =
                PriorityCode(clients_base[idx].final_tb)

\* the candidate periods of a row that carry its largest candidate value
TopCandidates(row) ==
    {j \in Candidates(row) :
        \A i \in Candidates(row) : row.period[i].value <= row.period[j].value}

\* C26 as stated: at granularity 1 a client row with two or more candidate
\* periods sharing the largest value gets the assignment of the lowest
\* numbered of them.
C26_TieBreakLowestPeriod ==
    RegistryBuilt /\ aggregation_mode = 1 =>
        \A idx \in ClientRows :
            LET row == clients_base[idx] IN
            Cardinality(TopCandidates(row)) >= 2 =>
                FinalFromPeriod(row, FirstOf(TopCandidates(row)))

\* C27: every client row with a nonzero final manager number has a period
\* whose manager number, name, branch and sub-branch are the row's four
\* final fields.
C27_FinalFromOnePeriod ==
    RegistryBuilt =>
        \A idx \in ClientRows :
            clients_base[idx].final_tab_number # 0 =>
                \E j \in Periods : FinalFromPeriod(clients_base[idx], j)

\* a client row with different managers in its two periods whose final
\* fields are those of the second
C27_Witness ==
    /\ RegistryBuilt
    /\ \E idx \in ClientRows :
        LET row == clients_base[idx] IN
        /\ row.period[1].tab_number = 12345
        /\ row.period[2].tab_number = 23456
        /\ row.final_tab_number = 23456
        /\ row.final_fio = "Petrov"
        /\ row.final_tb = "UB"
        /\ row.final_gosb = "Perm"

\* C28 as stated: the client id of every client row is the client id of the
\* period records that have the row's aggregation key, whatever the periods
\* they are found in.
C28_ClientIdCarried ==
    RegistryBuilt =>
        \A idx \in ClientRows : \A k \in Periods :
            \A i \in RecordsOfKey(clients_base[idx], k) :
                clients_base[idx].client_id = data_frames[k][i].client_id

\* the client rows a special-zone row is summed over: every client row for
\* the rows of the whole registry, else those of its branch or of its branch
\* and sub-branch
BucketRows(bucket) ==
    IF bucket.final_tb = "-" THEN ClientRows
    ELSE IF bucket.final_gosb = "-" THEN RowsOfBranch(bucket)
    ELSE RowsOfSubBranch(bucket)

\* C29 as stated: the period values of every special-zone row, the row
\* 80000000 included, are sums over client rows only.
C29_BucketsSumClientRowsOnly ==
    RegistryBuilt =>
        \A b \in SpecialZoneRows : \A k \in Periods :
            clients_base[b].period[k].value =
                SetSum(BucketRows(clients_base[b]),
                       [idx \in BucketRows(clients_base[b]) |->
                            clients_base[idx].period[k].value])

\* the records of all loaded periods
LoadedRecords ==
    UNION {{data_frames[k][i] : i \in 1..Len(data_frames[k])} : k \in DOMAIN data_frames}

\* two records agree on the fields the granularity keys a client by
SameKeyFields(first_record, second_record) ==
    /\ first_record.client_id = second_record.client_id
    /\ aggregation_mode \in {2, 3} => first_record.tb = second_record.tb
    /\ aggregation_mode = 3 => first_record.gosb = second_record.gosb

\* C30 as stated: at the granularities 1, 2 and 3 two loaded records have
\* the same client aggregation key exactly when they agree on the fields of
\* the granularity.
C30_ClientKeyInjective ==
    aggregation_mode \in AggregationModes =>
        \A first_record, second_record \in LoadedRecords :
            get_client_aggregation_key(first_record) =
                    get_client_aggregation_key(second_record)
                <=> SameKeyFields(first_record, second_record)

====
